---- MODULE Spec2Model ----
(***************************************************************************)
(* gotinydb: filters, index lookups (bolt cursor range scans), reference   *)
(* records and the versioned collection.                                   *)
(*                                                                         *)
(* The specifications of the module:                                       *)
(*   SpecFilter  builds a Filter with CompareTo / EqualWanted /            *)
(*               SetSelector and asks an index whether it applies;         *)
(*   SpecRange   runs queryEqual / queryGreaterLess / queryBetween of an   *)
(*               integer index over every small bucket content;            *)
(*   SpecColl    runs Put / Delete / Rollback on a collection with two     *)
(*               indexes;                                                  *)
(*   SpecWorker  runs the Index.Query workers of one query next to the     *)
(*               collector and the query's deadline;                       *)
(*   SpecCalls   calls Index.Apply and the loaders of stored reference     *)
(*               records and id lists on drawn inputs;                     *)
(*   SpecQuery   runs SetIndex / DeleteIndex / Query on a filled           *)
(*               collection;                                               *)
(*   SpecPuts    runs the puts of two goroutines, each put in a write      *)
(*               transaction;                                              *)
(*   SpecRefs    calls Refs.SetIndexedValue repeatedly on a new reference  *)
(*               record, and newIndexReference / GetValue.                 *)
(***************************************************************************)
EXTENDS Integers, Sequences, FiniteSets, TLC

VARIABLES filter, index, applies, nCalls,
          bucket, query, result, failAt,
          records, revisions, refs, indexes, clock, lastOp,
          workers, chan, collector,
          call,
          qry, resp, indexOp

filterVars == <<filter, index, applies, nCalls>>
rangeVars  == <<bucket, query, result, failAt>>
collVars   == <<records, revisions, refs, indexes, clock, lastOp>>
workerVars == <<workers, chan, collector>>
callVars   == <<call>>
queryVars  == <<qry, resp, indexOp>>
vars       == <<filter, index, applies, nCalls, bucket, query, result, failAt,
                records, revisions, refs, indexes, clock, lastOp,
                workers, chan, collector, call, qry, resp, indexOp>>

(***************************************************************************)
(* Bounds                                                                  *)
(***************************************************************************)
MaxCalls == 3
MaxInt == 1
MaxId == 3
InternalQueryLimit == 2
MaxRecords == 2
MaxClock == 3
RevisionDepth == 2

(***************************************************************************)
(* Values                                                                  *)
(***************************************************************************)
Operators == {"Equal", "Greater", "Less", "Between"}

IndexTypes == {"StringIndex", "IntIndex", "TimeIndex", "BytesIndex"}

IntVals == (0 - MaxInt)..MaxInt

\* a Go value handed to CompareTo: its dynamic type and its content
GoValues ==
  [GoType : {"int"}, V : IntVals]
    \cup [GoType : {"string", "time", "float64"}, V : {1}]

Fields == {"Address", "ZipCode"}

Selectors ==
  {<<>>, <<"Address">>, <<"ZipCode">>, <<"Address", "ZipCode">>,
   <<"Address", "Address">>}

Ids == 1..MaxId

(***************************************************************************)
(* filters.go                                                              *)
(***************************************************************************)
NewFilter(t) ==
  [operator |-> t, selector |-> <<>>, equal |-> FALSE, values |-> <<>>]

\* the IndexType of the value, or "ErrWrongType"
newfilterValueType(value) ==
  CASE value.GoType = "string" -> "StringIndex"
    [] value.GoType = "int"    -> "IntIndex"
    [] value.GoType = "time"   -> "TimeIndex"
    [] OTHER                   -> "ErrWrongType"

newfilterValue(value) ==
  [Type |-> newfilterValueType(value), Value |-> value]

\* the variant appends the new value whatever the operator
CompareToAppending(f, val) ==
  LET fv == newfilterValue(val) IN
  IF fv.Type = "ErrWrongType" THEN f
  ELSE [f EXCEPT !.values = Append(f.values, fv)]

CompareTo(f, val) ==
  LET fv == newfilterValue(val) IN
  IF fv.Type = "ErrWrongType" THEN f
  ELSE IF f.values = <<>> \/ f.operator # "Between"
       THEN [f EXCEPT !.values = <<fv>>]
       ELSE LET vs == IF Len(f.values) >= 2
                      THEN [f.values EXCEPT ![2] = fv]
                      ELSE f.values
            IN [f EXCEPT !.values = Append(vs, fv)]

GetType(f) == f.operator

EqualWanted(f) == [f EXCEPT !.equal = TRUE]

SetSelector(f, s) == [f EXCEPT !.selector = s]

(***************************************************************************)
(* Codec (vars package): order-preserving encodings                        *)
(***************************************************************************)
SignBit == 8

intToBytes(v) == v + SignBit

stringToBytes(v) == v

timeToBytes(v) == v

\* filterValue.Bytes: <<>> stands for the nil slice
Bytes(fv) ==
  CASE fv.Type = "StringIndex" -> <<stringToBytes(fv.Value.V)>>
    [] fv.Type = "IntIndex"    -> <<intToBytes(fv.Value.V)>>
    [] fv.Type = "TimeIndex"   -> <<timeToBytes(fv.Value.V)>>
    [] OTHER                   -> <<>>

(***************************************************************************)
(* Index.DoesFilterApplyToIndex                                            *)
(***************************************************************************)
\* positions of the index selector at which the loop stops
SelectorStops(i, f) ==
  {j \in 1..Len(i.Selector) :
     j > Len(f.selector) \/ f.selector[j] # i.Selector[j]}

FirstStop(S) == CHOOSE j \in S : \A k \in S : j <= k

\* "true", "false", or "panic" (index out of range on filter.selector[j])
DoesFilterApplyToIndex(i, f) ==
  IF SelectorStops(i, f) # {}
  THEN IF FirstStop(SelectorStops(i, f)) > Len(f.selector)
       THEN "panic" ELSE "false"
  ELSE IF \E k \in 1..Len(f.values) : f.values[k].Type = i.Type
       THEN "true" ELSE "false"

(***************************************************************************)
(* Id sets (idsType): a slice of id entries, each carrying the indexed     *)
(* value its index saw                                                     *)
(***************************************************************************)
Min(S) == CHOOSE x \in S : \A y \in S : x <= y

RECURSIVE SortedSeq(_)
SortedSeq(S) ==
  IF S = {} THEN <<>> ELSE <<Min(S)>> \o SortedSeq(S \ {Min(S)})

\* the variant returns the entries without their referred value
newIDsUnannotated(referredValue, idsAsBytes) ==
  [n \in 1..Len(idsAsBytes) |-> [ID |-> idsAsBytes[n], values |-> <<>>]]

\* newIDs: the stored id list of one key, each entry annotated with the
\* referred value; nil bytes give the empty set
newIDs(referredValue, idsAsBytes) ==
  [n \in 1..Len(idsAsBytes) |-> [ID |-> idsAsBytes[n], values |-> referredValue]]

IDsOf(ids) == {ids[n].ID : n \in 1..Len(ids)}

\* idsType.AddIDs: deduplicating insert in id-sorted position; an id already
\* present keeps its place and takes the annotation of the added entry
AddIDs(ids, toAdd) ==
  LET all == IDsOf(ids) \cup IDsOf(toAdd)
      order == SortedSeq(all)
      entry(id) ==
        IF id \in IDsOf(toAdd)
        THEN toAdd[CHOOSE n \in 1..Len(toAdd) : toAdd[n].ID = id]
        ELSE ids[CHOOSE n \in 1..Len(ids) : ids[n].ID = id]
  IN [n \in 1..Len(order) |-> entry(order[n])]

(***************************************************************************)
(* The index bucket and its bolt cursor                                    *)
(***************************************************************************)
IntKeys == {intToBytes(v) : v \in IntVals}

\* a bucket maps an encoded value to the ids stored under it; a key whose
\* id list is empty is not in the bucket
BucketKeys(b) == SortedSeq({k \in DOMAIN b : b[k] # {}})

\* bucket.Get: the stored (sorted) id list, <<>> when the key is absent
BucketGet(b, key) ==
  IF key \in DOMAIN b THEN SortedSeq(b[key]) ELSE <<>>

\* Cursor.Seek: the position of the first key >= seek, past the end if none
Seek(keys, seek) ==
  LET ge == {p \in 1..Len(keys) : seek = <<>> \/ keys[p] >= seek[1]} IN
  IF ge = {} THEN Len(keys) + 1 ELSE Min(ge)

\* Cursor.Next / Cursor.Prev: the new position, 0 when the cursor yields nil
CursorNext(keys, pos) == IF pos < Len(keys) THEN pos + 1 ELSE 0

\* the variant steps over the key before the cursor
CursorPrevSkipping(keys, pos) == IF pos > 2 THEN pos - 2 ELSE 0

CursorPrev(keys, pos) == IF pos > 1 THEN pos - 1 ELSE 0

\* the key under the cursor, <<>> for nil
KeyAt(keys, pos) == IF pos \in 1..Len(keys) THEN <<keys[pos]>> ELSE <<>>

(***************************************************************************)
(* index_internal.go                                                       *)
(***************************************************************************)
\* getTx or the decoding of the stored id list may fail: the lookup then
\* returns (nil, err)
getIDsForOneValue(b, indexedValue, fails) ==
  IF fails THEN [IDs |-> <<>>, err |-> TRUE]
  ELSE [IDs |-> newIDs(indexedValue, BucketGet(b, indexedValue[1])),
        err |-> FALSE]

\* bytes.Compare(limit, indexedValue) < 0, resp. <= 0
CrossesLimit(limit, key, keepEqual) ==
  /\ limit # <<>>
  /\ IF keepEqual THEN limit[1] < key ELSE limit[1] <= key

\* the for loop of getIDsForRangeOfValues, the cursor standing at pos
RECURSIVE ScanLoop(_, _, _, _, _, _, _)
ScanLoop(b, keys, pos, limit, keepEqual, increasing, allIDs) ==
  LET next == IF increasing THEN CursorNext(keys, pos)
                            ELSE CursorPrev(keys, pos)
  IN IF next = 0
     THEN [IDs |-> allIDs, truncated |-> FALSE, err |-> FALSE]
     ELSE IF CrossesLimit(limit, keys[next], keepEqual)
          THEN [IDs |-> allIDs, truncated |-> FALSE, err |-> FALSE]
          ELSE LET added == AddIDs(allIDs,
                                   newIDs(<<keys[next]>>, BucketGet(b, keys[next])))
               IN IF Len(added) > InternalQueryLimit
                  THEN [IDs |-> SubSeq(added, 1, InternalQueryLimit),
                        truncated |-> TRUE, err |-> FALSE]
                  ELSE ScanLoop(b, keys, next, limit, keepEqual, increasing, added)

\* getTx or the decoding of a stored id list may fail: whatever was gathered
\* is dropped and the lookup returns (nil, err)
getIDsForRangeOfValues(b, indexedValue, limit, keepEqual, increasing, fails) ==
  LET keys == BucketKeys(b)
      pos == Seek(keys, indexedValue)
      firstIDsValue ==
        newIDs(indexedValue,
               IF pos \in 1..Len(keys) THEN BucketGet(b, keys[pos]) ELSE <<>>)
      allIDs == IF KeyAt(keys, pos) = indexedValue /\ keepEqual
                THEN AddIDs(<<>>, firstIDsValue) ELSE <<>>
  IN IF fails THEN [IDs |-> <<>>, truncated |-> FALSE, err |-> TRUE]
     ELSE ScanLoop(b, keys, pos, limit, keepEqual, increasing, allIDs)

\* the loop of queryEqual from the n-th value on; fail is the number of the
\* lookup that fails (0: none): the error is logged and the function returns,
\* ids keeping what the lookups before it added
RECURSIVE queryEqualFrom(_, _, _, _, _)
queryEqualFrom(b, ids, f, n, fail) ==
  IF n > Len(f.values) THEN ids
  ELSE LET tmpIDs == getIDsForOneValue(b, Bytes(f.values[n]), n = fail) IN
       IF tmpIDs.err THEN ids
       ELSE queryEqualFrom(b, AddIDs(ids, tmpIDs.IDs), f, n + 1, fail)

\* the three query functions have no result but ids: status "ok" is a plain
\* return to the caller
queryEqual(b, f, fail) ==
  [status |-> "ok", IDs |-> queryEqualFrom(b, <<>>, f, 1, fail),
   truncated |-> FALSE]

\* filter.values[0] of a filter without value is an index out of range
queryGreaterLess(b, f, fail) ==
  IF f.values = <<>>
  THEN [status |-> "panic", IDs |-> <<>>, truncated |-> FALSE]
  ELSE LET tmpIDs == getIDsForRangeOfValues(b, Bytes(f.values[1]), <<>>,
                                            f.equal, GetType(f) # "Less",
                                            fail # 0)
       IN IF tmpIDs.err
          THEN [status |-> "ok", IDs |-> <<>>, truncated |-> FALSE]
          ELSE [status |-> "ok", IDs |-> AddIDs(<<>>, tmpIDs.IDs),
                truncated |-> tmpIDs.truncated]

\* the variant scans upwards from a single value
queryBetweenFromOneValue(b, f, fail) ==
  IF f.values = <<>>
  THEN [status |-> "ok", IDs |-> <<>>, truncated |-> FALSE]
  ELSE LET tmpIDs == getIDsForRangeOfValues(
                       b, Bytes(f.values[1]),
                       IF Len(f.values) < 2 THEN <<>> ELSE Bytes(f.values[2]),
                       f.equal, TRUE, fail # 0)
       IN IF tmpIDs.err
          THEN [status |-> "ok", IDs |-> <<>>, truncated |-> FALSE]
          ELSE [status |-> "ok", IDs |-> AddIDs(<<>>, tmpIDs.IDs),
                truncated |-> tmpIDs.truncated]

queryBetween(b, f, fail) ==
  IF Len(f.values) < 2
  THEN [status |-> "ok", IDs |-> <<>>, truncated |-> FALSE]
  ELSE LET tmpIDs == getIDsForRangeOfValues(b, Bytes(f.values[1]),
                                            Bytes(f.values[2]), f.equal, TRUE,
                                            fail # 0)
       IN IF tmpIDs.err
          THEN [status |-> "ok", IDs |-> <<>>, truncated |-> FALSE]
          ELSE [status |-> "ok", IDs |-> AddIDs(<<>>, tmpIDs.IDs),
                truncated |-> tmpIDs.truncated]

(***************************************************************************)
(* Idle values of the variables a specification does not use               *)
(***************************************************************************)
NoResult == [status |-> "none", IDs |-> <<>>, truncated |-> FALSE]

NoOp == [op |-> "none", id |-> 0, n |-> 0, err |-> "", ts |-> 0]

FilterIdle ==
  /\ filter = NewFilter("Equal")
  /\ index = [Name |-> "zip", Selector |-> <<"Address", "ZipCode">>,
              Type |-> "IntIndex"]
  /\ applies = "none"
  /\ nCalls = 0

RangeIdle ==
  /\ bucket = [k \in IntKeys |-> {}]
  /\ query = NewFilter("Equal")
  /\ result = NoResult
  /\ failAt = 0

CollIdle ==
  /\ records = [id \in Ids |-> <<>>]
  /\ revisions = [id \in Ids |-> <<>>]
  /\ refs = [id \in Ids |-> <<>>]
  /\ indexes = <<>>
  /\ clock = 0
  /\ lastOp = NoOp

NoResponse == [status |-> "none", err |-> "", rows |-> <<>>]

NoCollector ==
  [st |-> "idle", got |-> <<>>, expired |-> FALSE, response |-> NoResponse]

NoCall == [fn |-> "none"]

NoQuery == [filters |-> <<>>, order |-> <<>>, ascending |-> TRUE,
            limit |-> 0, offset |-> 0]

NoIndexOp == [op |-> "none", name |-> "", err |-> ""]

WorkerIdle ==
  /\ workers = <<>>
  /\ chan = <<>>
  /\ collector = NoCollector

CallIdle == call = NoCall

QueryIdle ==
  /\ qry = NoQuery
  /\ resp = NoResponse
  /\ indexOp = NoIndexOp

(***************************************************************************)
(* SpecFilter: a filter under construction and one index                   *)
(***************************************************************************)
IndexDefs ==
  [Name : {"zip"}, Selector : Selectors \ {<<>>}, Type : IndexTypes]

FilterInit ==
  /\ \E t \in Operators : filter = NewFilter(t)
  /\ index \in IndexDefs
  /\ applies = "none"
  /\ nCalls = 0
  /\ RangeIdle
  /\ CollIdle
  /\ WorkerIdle
  /\ CallIdle
  /\ QueryIdle

CompareToAct ==
  /\ nCalls < MaxCalls
  /\ \E val \in GoValues : filter' = CompareTo(filter, val)
  /\ nCalls' = nCalls + 1
  /\ applies' = "none"
  /\ UNCHANGED <<index, rangeVars, collVars, workerVars, callVars, queryVars>>

EqualWantedAct ==
  /\ filter' = EqualWanted(filter)
  /\ applies' = "none"
  /\ UNCHANGED <<index, nCalls, rangeVars, collVars, workerVars, callVars, queryVars>>

SetSelectorAct ==
  /\ \E s \in Selectors : filter' = SetSelector(filter, s)
  /\ applies' = "none"
  /\ UNCHANGED <<index, nCalls, rangeVars, collVars, workerVars, callVars, queryVars>>

DoesFilterApplyAct ==
  /\ applies' = DoesFilterApplyToIndex(index, filter)
  /\ UNCHANGED <<filter, index, nCalls, rangeVars, collVars, workerVars, callVars, queryVars>>

FilterNext ==
  \/ CompareToAct
  \/ EqualWantedAct
  \/ SetSelectorAct
  \/ DoesFilterApplyAct

SpecFilter == FilterInit /\ [][FilterNext]_vars

(***************************************************************************)
(* SpecRange: one lookup of an integer index over a drawn bucket           *)
(***************************************************************************)
\* every id is stored under at most one key of an index
Placements == [Ids -> IntKeys \cup {0}]

BucketOf(place) == [k \in IntKeys |-> {id \in Ids : place[id] = k}]

IntGoValues == [GoType : {"int"}, V : IntVals]

ValueSeqs ==
  UNION {[1..n -> IntGoValues] : n \in 0..(MaxCalls - 1)}

RECURSIVE CompareToAll(_, _, _)
CompareToAll(f, vs, n) ==
  IF n > Len(vs) THEN f ELSE CompareToAll(CompareTo(f, vs[n]), vs, n + 1)

\* NewFilter(op).SetSelector(...).CompareTo(vs[1]).CompareTo(vs[2])...
BuildFilter(op, eq, vs) ==
  LET f == CompareToAll(SetSelector(NewFilter(op), <<"Address", "ZipCode">>),
                        vs, 1)
  IN IF eq THEN EqualWanted(f) ELSE f

RangeInit ==
  /\ \E place \in Placements : bucket = BucketOf(place)
  /\ query = NewFilter("Equal")
  /\ result = NoResult
  /\ failAt = 0
  /\ FilterIdle
  /\ CollIdle
  /\ WorkerIdle
  /\ CallIdle
  /\ QueryIdle

QueryEqualAct ==
  /\ result.status = "none"
  /\ \E eq \in BOOLEAN, vs \in ValueSeqs :
       /\ query' = BuildFilter("Equal", eq, vs)
       /\ failAt' \in 0..Len(query'.values)
       /\ result' = queryEqual(bucket, query', failAt')
  /\ UNCHANGED <<bucket, filterVars, collVars, workerVars, callVars,
                 queryVars>>

QueryGreaterLessAct ==
  /\ result.status = "none"
  /\ \E op \in {"Greater", "Less"}, eq \in BOOLEAN, vs \in ValueSeqs :
       /\ query' = BuildFilter(op, eq, vs)
       /\ failAt' \in 0..Min({1, Len(query'.values)})
       /\ result' = queryGreaterLess(bucket, query', failAt')
  /\ UNCHANGED <<bucket, filterVars, collVars, workerVars, callVars,
                 queryVars>>

QueryBetweenAct ==
  /\ result.status = "none"
  /\ \E eq \in BOOLEAN, vs \in ValueSeqs :
       /\ query' = BuildFilter("Between", eq, vs)
       /\ failAt' \in 0..(IF Len(query'.values) < 2 THEN 0 ELSE 1)
       /\ result' = queryBetween(bucket, query', failAt')
  /\ UNCHANGED <<bucket, filterVars, collVars, workerVars, callVars,
                 queryVars>>

RangeNext ==
  \/ QueryEqualAct
  \/ QueryGreaterLessAct
  \/ QueryBetweenAct

SpecRange == RangeInit /\ [][RangeNext]_vars

(***************************************************************************)
(* Index.Apply and the reference record (Refs)                             *)
(***************************************************************************)
Scalar(t, v) == [GoType |-> t, V |-> v]

Struct(fields) == [GoType |-> "struct", V |-> fields]

\* the walk of Apply along the selector: "ok" with the field's value,
\* "missing" when FieldOk fails, "panic" when FieldOk is asked of a field that
\* is not a struct
RECURSIVE WalkSelector(_, _, _)
WalkSelector(val, sel, n) ==
  IF n > Len(sel) THEN [st |-> "ok", val |-> val]
  ELSE IF val.GoType # "struct" THEN [st |-> "panic", val |-> val]
  ELSE IF sel[n] \notin DOMAIN val.V THEN [st |-> "missing", val |-> val]
  ELSE WalkSelector(val.V[sel[n]], sel, n + 1)

\* the variant converts without looking at the value's type
testTypeUnchecked(i, value) ==
  CASE i.Type = "StringIndex" -> [ok |-> TRUE, content |-> <<stringToBytes(value.V)>>]
    [] i.Type = "IntIndex"    -> [ok |-> TRUE, content |-> <<intToBytes(value.V)>>]
    [] i.Type = "TimeIndex"   -> [ok |-> TRUE, content |-> <<timeToBytes(value.V)>>]
    [] OTHER                  -> [ok |-> FALSE, content |-> <<>>]

\* Index.testType: the encoded value when the conversion of the index's type
\* accepts the value
testType(i, value) ==
  CASE i.Type = "StringIndex" /\ value.GoType = "string" ->
         [ok |-> TRUE, content |-> <<stringToBytes(value.V)>>]
    [] i.Type = "IntIndex" /\ value.GoType = "int" ->
         [ok |-> TRUE, content |-> <<intToBytes(value.V)>>]
    [] i.Type = "TimeIndex" /\ value.GoType = "time" ->
         [ok |-> TRUE, content |-> <<timeToBytes(value.V)>>]
    [] i.Type = "BytesIndex" /\ value.GoType = "bytes" ->
         [ok |-> TRUE, content |-> <<value.V>>]
    [] OTHER -> [ok |-> FALSE, content |-> <<>>]

\* Index.Apply: (contentToIndex, ok), or the panic of structs when the walk
\* asks a value that is not a struct for a field
Apply(i, object) ==
  LET w == WalkSelector(object, i.Selector, 1) IN
  IF w.st = "ok"
  THEN [ok |-> testType(i, w.val).ok, content |-> testType(i, w.val).content,
        panic |-> FALSE]
  ELSE [ok |-> FALSE, content |-> <<>>, panic |-> w.st = "panic"]

NewRefs == <<>>

\* the variant appends a reference at every call
SetIndexedValueAppending(r, indexName, indexedVal) ==
  Append(r, [IndexName |-> indexName, IndexedValue |-> indexedVal])

\* the variant keeps only the reference set last
SetIndexedValueOnly(r, indexName, indexedVal) ==
  <<[IndexName |-> indexName, IndexedValue |-> indexedVal]>>

\* Refs.SetIndexedValue on the list r.Refs
SetIndexedValue(r, indexName, indexedVal) ==
  IF \E n \in 1..Len(r) : r[n].IndexName = indexName
  THEN [n \in 1..Len(r) |->
          IF r[n].IndexName = indexName
               /\ \A m \in 1..(n - 1) : r[m].IndexName # indexName
          THEN [r[n] EXCEPT !.IndexedValue = indexedVal]
          ELSE r[n]]
  ELSE Append(r, [IndexName |-> indexName, IndexedValue |-> indexedVal])

(***************************************************************************)
(* The collection: records, revisions, references and index buckets        *)
(***************************************************************************)
CollIds == 1..MaxRecords

IndexList ==
  <<[Name |-> "age", Selector |-> <<"Age">>, Type |-> "IntIndex"],
    [Name |-> "zip", Selector |-> <<"Address", "ZipCode">>, Type |-> "IntIndex"]>>

IndexNames == {IndexList[n].Name : n \in 1..Len(IndexList)}

IndexNamed(name) ==
  IndexList[CHOOSE n \in 1..Len(IndexList) : IndexList[n].Name = name]

\* the records put in the collection: the age may have the wrong type and
\* the address may be missing
Payloads ==
  {Struct([Age |-> Scalar("int", 1),
           Address |-> Struct([ZipCode |-> Scalar("int", 0)])]),
   Struct([Age |-> Scalar("int", 0)]),
   Struct([Age |-> Scalar("string", 1)])}

CollKeys == IntKeys

\* the references of a record: every index that applies sets its value
RECURSIVE RefsOfFrom(_, _, _)
RefsOfFrom(object, r, n) ==
  IF n > Len(IndexList) THEN r
  ELSE LET a == Apply(IndexList[n], object) IN
       RefsOfFrom(object,
                  IF a.ok THEN SetIndexedValue(r, IndexList[n].Name, a.content)
                          ELSE r,
                  n + 1)

RefsOf(object) == RefsOfFrom(object, NewRefs, 1)

RefPairs(r) == {<<r[n].IndexName, r[n].IndexedValue>> : n \in 1..Len(r)}

\* Index insert / remove of one id, driven by the difference of the
\* reference records
Reindex(idx, id, old, new) ==
  LET removed == RefPairs(old) \ RefPairs(new)
      added == RefPairs(new) \ RefPairs(old)
  IN [name \in IndexNames |->
        [k \in CollKeys |->
           IF <<name, <<k>>>> \in added THEN idx[name][k] \cup {id}
           ELSE IF <<name, <<k>>>> \in removed THEN idx[name][k] \ {id}
           ELSE idx[name][k]]]

\* the variant overwrites the live revision
AppendRevisionInPlace(revs, ts, payload) ==
  IF revs = <<>> THEN <<[ts |-> ts, payload |-> payload]>>
  ELSE [revs EXCEPT ![Len(revs)] = [ts |-> ts, payload |-> payload]]

\* the revisions of a record, oldest first, the live one last; the eldest is
\* discarded beyond RevisionDepth
AppendRevision(revs, ts, payload) ==
  LET all == Append(revs, [ts |-> ts, payload |-> payload]) IN
  IF Len(all) > RevisionDepth
  THEN SubSeq(all, Len(all) - RevisionDepth + 1, Len(all))
  ELSE all

IsLive(id) == revisions[id] # <<>>

Get(id) == records[id]

\* every operation of the collection records itself in lastOp, so lastOp'
\* names the operation a step has run
\* the whole write transaction of a put
PutTx(id, payload) ==
  /\ indexes' = Reindex(indexes, id, refs[id], RefsOf(payload))
  /\ refs' = [refs EXCEPT ![id] = RefsOf(payload)]
  /\ records' = [records EXCEPT ![id] = <<payload>>]
  /\ revisions' = [revisions EXCEPT
                     ![id] = AppendRevision(revisions[id], clock + 1, payload)]
  /\ clock' = clock + 1

CollInit ==
  /\ records = [id \in CollIds |-> <<>>]
  /\ revisions = [id \in CollIds |-> <<>>]
  /\ refs = [id \in CollIds |-> NewRefs]
  /\ indexes = [name \in IndexNames |-> [k \in CollKeys |-> {}]]
  /\ clock = 0
  /\ lastOp = NoOp
  /\ FilterIdle
  /\ RangeIdle
  /\ WorkerIdle
  /\ CallIdle
  /\ QueryIdle

Put(id, payload) ==
  /\ clock < MaxClock
  /\ PutTx(id, payload)
  /\ lastOp' = [op |-> "Put", id |-> id, n |-> 0, err |-> "", ts |-> clock + 1]
  /\ UNCHANGED <<filterVars, rangeVars, workerVars, callVars, queryVars>>

Delete(id) ==
  /\ IF IsLive(id)
     THEN /\ indexes' = Reindex(indexes, id, refs[id], NewRefs)
          /\ refs' = [refs EXCEPT ![id] = NewRefs]
          /\ records' = [records EXCEPT ![id] = <<>>]
          /\ revisions' = [revisions EXCEPT ![id] = <<>>]
          /\ lastOp' = [op |-> "Delete", id |-> id, n |-> 0, err |-> "", ts |-> 0]
     ELSE /\ UNCHANGED <<indexes, refs, records, revisions>>
          /\ lastOp' = [op |-> "Delete", id |-> id, n |-> 0,
                        err |-> "NotFound", ts |-> 0]
  /\ UNCHANGED <<clock, filterVars, rangeVars, workerVars, callVars, queryVars>>

\* the number of revisions stored before the live one
NumPrevious(id) == IF IsLive(id) THEN Len(revisions[id]) - 1 ELSE 0

\* the position of the revision Rollback(id, n) restores: n = 0 is the
\* revision put just before the live one; 0 when there is none
RevisionPosClamped(revs, n) ==
  IF n + 1 < Len(revs) THEN Len(revs) - 1 - n ELSE 1

RevisionPos(revs, n) == IF n + 1 < Len(revs) THEN Len(revs) - 1 - n ELSE 0

\* a restore may still take a timestamp after the last put
Rollback(id, n) ==
  /\ clock <= MaxClock
  /\ IF ~ IsLive(id)
     THEN /\ UNCHANGED <<indexes, refs, records, revisions, clock>>
          /\ lastOp' = [op |-> "Rollback", id |-> id, n |-> n,
                        err |-> "NotFound", ts |-> 0]
     ELSE IF RevisionPos(revisions[id], n) = 0
     THEN /\ UNCHANGED <<indexes, refs, records, revisions, clock>>
          /\ lastOp' = [op |-> "Rollback", id |-> id, n |-> n,
                        err |-> "RevisionOutOfRange", ts |-> 0]
     ELSE LET rev == revisions[id][RevisionPos(revisions[id], n)] IN
          /\ PutTx(id, rev.payload)
          /\ lastOp' = [op |-> "Rollback", id |-> id, n |-> n, err |-> "",
                        ts |-> rev.ts]
  /\ UNCHANGED <<filterVars, rangeVars, workerVars, callVars, queryVars>>

PutAct == \E id \in CollIds, payload \in Payloads : Put(id, payload)

DeleteAct == \E id \in CollIds : Delete(id)

RollbackAct == \E id \in CollIds, n \in 0..RevisionDepth : Rollback(id, n)

CollNext ==
  \/ PutAct
  \/ DeleteAct
  \/ RollbackAct

SpecColl == CollInit /\ [][CollNext]_vars

(***************************************************************************)
(* SpecPuts: one goroutine per record putting its record several times     *)
(* (go updateUser of TestCollection_Query), each put in a write            *)
(* transaction of the engine                                               *)
(***************************************************************************)
\* two goroutines, each putting the record of its own id
Goroutines == {1, 2}

\* the insert and the two updates of a goroutine
PutsPerGoroutine == 3

\* the variant lets a write transaction start beside another one
WriterFreeAlways(g) == TRUE

\* the engine runs at most one write transaction at a time
WriterFree(g) == \A h \in Goroutines \ {g} : workers[h].pc # "tx"

PutsInit ==
  /\ workers = [g \in Goroutines |->
                  [pc |-> "idle", k |-> 0, payload |-> <<>>, last |-> <<>>,
                   seenIndexes |-> <<>>, seenRefs |-> <<>>]]
  /\ chan = <<>>
  /\ collector = NoCollector
  /\ records = [id \in CollIds |-> <<>>]
  /\ revisions = [id \in CollIds |-> <<>>]
  /\ refs = [id \in CollIds |-> NewRefs]
  /\ indexes = [name \in IndexNames |-> [k \in CollKeys |-> {}]]
  /\ clock = 0
  /\ lastOp = NoOp
  /\ FilterIdle
  /\ RangeIdle
  /\ CallIdle
  /\ QueryIdle

\* Put opens its write transaction and loads the old references and the
\* index buckets in it
PutBegin(g) ==
  /\ workers[g].pc = "idle"
  /\ workers[g].k < PutsPerGoroutine
  /\ WriterFree(g)
  /\ \E payload \in Payloads :
       workers' = [workers EXCEPT
                     ![g] = [@ EXCEPT !.pc = "tx", !.payload = <<payload>>,
                                      !.seenIndexes = indexes,
                                      !.seenRefs = refs[g]]]
  /\ UNCHANGED <<chan, collector, collVars, filterVars, rangeVars, callVars,
                 queryVars>>

\* the index entries, the reference record, the record and its revision are
\* written from what the transaction has read, and the transaction commits
PutCommit(g) ==
  LET wk == workers[g]
      payload == wk.payload[1]
  IN /\ wk.pc = "tx"
     /\ indexes' = Reindex(wk.seenIndexes, g, wk.seenRefs, RefsOf(payload))
     /\ refs' = [refs EXCEPT ![g] = RefsOf(payload)]
     /\ records' = [records EXCEPT ![g] = <<payload>>]
     /\ revisions' = [revisions EXCEPT
                        ![g] = AppendRevision(revisions[g], clock + 1, payload)]
     /\ clock' = clock + 1
     /\ lastOp' = [op |-> "Put", id |-> g, n |-> 0, err |-> "",
                   ts |-> clock + 1]
     /\ workers' = [workers EXCEPT
                      ![g] = [@ EXCEPT !.pc = "idle", !.k = wk.k + 1,
                                       !.last = wk.payload,
                                       !.payload = <<>>,
                                       !.seenIndexes = <<>>,
                                       !.seenRefs = <<>>]]
     /\ UNCHANGED <<chan, collector, filterVars, rangeVars, callVars,
                    queryVars>>

\* doneChan <- nil after the last put, received by the test
PutsDone(g) ==
  /\ workers[g].pc = "idle"
  /\ workers[g].k = PutsPerGoroutine
  /\ workers' = [workers EXCEPT ![g] = [@ EXCEPT !.pc = "done"]]
  /\ chan' = Append(chan, [from |-> g, err |-> ""])
  /\ UNCHANGED <<collector, collVars, filterVars, rangeVars, callVars,
                 queryVars>>

PutBeginAct == \E g \in Goroutines : PutBegin(g)

PutCommitAct == \E g \in Goroutines : PutCommit(g)

PutsDoneAct == \E g \in Goroutines : PutsDone(g)

PutsNext ==
  \/ PutBeginAct
  \/ PutCommitAct
  \/ PutsDoneAct

SpecPuts == PutsInit /\ [][PutsNext]_vars

(***************************************************************************)
(* SpecWorker: the workers of one query (Index.Query, one per filter), the *)
(* completion channel, the collector and the deadline of the query         *)
(***************************************************************************)
Workers == {1, 2}

nonWorkerVars == <<filterVars, rangeVars, collVars, callVars, queryVars>>

\* the filters handed to the workers: every operator with up to
\* MaxCalls - 1 values given by CompareTo
WorkerValueSeqs ==
  {[n \in 1..k |-> [GoType |-> "int", V |-> 0]] : k \in 0..(MaxCalls - 1)}

WorkerFilters ==
  {BuildFilter(op, FALSE, vs) : op \in Operators, vs \in WorkerValueSeqs}

InitWorker(f) ==
  [filter |-> f, pc |-> "start", n |-> 0, ids |-> <<>>, done |-> FALSE,
   failed |-> FALSE, panicked |-> FALSE, sent |-> <<>>]

\* a message of finishedChan: an id set or the nil pointer
IDsMessage(w, ids) == [from |-> w, isNil |-> FALSE, ids |-> ids]

NilMessage(w) == [from |-> w, isNil |-> TRUE, ids |-> <<>>]

\* what the n-th lookup of a worker finds through getIDsFunc /
\* getRangeIDsFunc: nothing, or the id n
Found(n, found) == IF found THEN <<[ID |-> n, values |-> <<>>]>> ELSE <<>>

\* done := false, the defer, NewIDs and the switch on the filter's type
WStart(w) ==
  LET wk == workers[w]
      next == CASE GetType(wk.filter) = "Equal" ->
                     IF wk.filter.values = <<>> THEN "send" ELSE "equal"
                [] GetType(wk.filter) \in {"Greater", "Less"} -> "range"
                [] OTHER -> "send"
  IN /\ wk.pc = "start"
     /\ workers' = [workers EXCEPT
                      ![w] = [wk EXCEPT !.pc = next, !.n = 1, !.ids = <<>>,
                                        !.done = FALSE]]
     /\ UNCHANGED <<chan, collector, nonWorkerVars>>

\* one turn of the loop of case Equal: the lookup fails (log, return) or its
\* ids are added
WEqualLookup(w) ==
  LET wk == workers[w] IN
  /\ wk.pc = "equal"
  /\ \E getErr \in BOOLEAN, found \in BOOLEAN :
       workers' = [workers EXCEPT ![w] =
         IF getErr
         THEN [wk EXCEPT !.failed = TRUE, !.pc = "deferred"]
         ELSE [wk EXCEPT !.ids = AddIDs(wk.ids, Found(wk.n, found)),
                         !.n = wk.n + 1,
                         !.pc = IF wk.n >= Len(wk.filter.values)
                                THEN "send" ELSE "equal"]]
  /\ UNCHANGED <<chan, collector, nonWorkerVars>>

\* case Greater, Less: ValueToCompareAsBytes(0) of a filter without value
\* either panics or gives nil; then the lookup fails or its ids are added
WRangeLookup(w) ==
  LET wk == workers[w] IN
  /\ wk.pc = "range"
  /\ \E panics \in BOOLEAN, getIdsErr \in BOOLEAN, found \in BOOLEAN :
       workers' = [workers EXCEPT ![w] =
         IF panics /\ wk.filter.values = <<>>
         THEN [wk EXCEPT !.panicked = TRUE, !.pc = "deferred"]
         ELSE IF getIdsErr
         THEN [wk EXCEPT !.failed = TRUE, !.pc = "deferred"]
         ELSE [wk EXCEPT !.ids = AddIDs(wk.ids, Found(wk.n, found)),
                         !.pc = "send"]]
  /\ UNCHANGED <<chan, collector, nonWorkerVars>>

\* finishedChan <- ids; done = true; return
WSend(w) ==
  LET wk == workers[w] IN
  /\ wk.pc = "send"
  /\ chan' = Append(chan, IDsMessage(w, wk.ids))
  /\ workers' = [workers EXCEPT
                   ![w] = [wk EXCEPT !.done = TRUE, !.pc = "deferred",
                                     !.sent = Append(wk.sent,
                                                     IDsMessage(w, wk.ids))]]
  /\ UNCHANGED <<collector, nonWorkerVars>>

\* the variant replies whatever done says
DeferredSendsAlways(done) == TRUE

\* the deferred function: if !done { finishedChan <- nil }
DeferredSends(done) == ~ done

WDeferred(w) ==
  LET wk == workers[w] IN
  /\ wk.pc = "deferred"
  /\ IF DeferredSends(wk.done)
     THEN /\ chan' = Append(chan, NilMessage(w))
          /\ workers' = [workers EXCEPT
                           ![w] = [wk EXCEPT !.pc = "returned",
                                             !.sent = Append(wk.sent,
                                                             NilMessage(w))]]
     ELSE /\ chan' = chan
          /\ workers' = [workers EXCEPT ![w] = [wk EXCEPT !.pc = "returned"]]
  /\ UNCHANGED <<collector, nonWorkerVars>>

\* IdSet.intersect: the entries of a whose id is in b too
Intersect(a, b) ==
  LET keep == SortedSeq(IDsOf(a) \cap IDsOf(b)) IN
  [n \in 1..Len(keep) |->
     a[CHOOSE m \in 1..Len(a) : a[m].ID = keep[n]]]

RECURSIVE IntersectAll(_, _)
IntersectAll(got, n) ==
  IF n = Len(got) THEN got[n] ELSE Intersect(got[n], IntersectAll(got, n + 1))

\* the variant hands out what was collected before the deadline
TimeoutResponsePartial(got) ==
  [status |-> "err", err |-> "Timeout",
   rows |-> IF got = <<>> THEN <<>> ELSE IntersectAll(got, 1)]

\* a query that times out returns Timeout and no rows
TimeoutResponse(got) == [status |-> "err", err |-> "Timeout", rows |-> <<>>]

\* the collector takes one message per filter: a nil sentinel aborts the
\* query, the last id set completes it
CollectorReceive ==
  /\ collector.st = "collecting"
  /\ ~ collector.expired
  /\ chan # <<>>
  /\ chan' = Tail(chan)
  /\ LET m == Head(chan)
         got == Append(collector.got, m.ids)
     IN collector' =
          IF m.isNil
          THEN [collector EXCEPT
                  !.st = "done",
                  !.response = [status |-> "err", err |-> "WorkerFailed",
                                rows |-> <<>>]]
          ELSE IF Len(got) = Cardinality(Workers)
          THEN [collector EXCEPT
                  !.st = "done", !.got = got,
                  !.response = [status |-> "ok", err |-> "",
                                rows |-> IntersectAll(got, 1)]]
          ELSE [collector EXCEPT !.got = got]
  /\ UNCHANGED <<workers, nonWorkerVars>>

\* the deadline of the query passes while the collector waits
Deadline ==
  /\ collector.st = "collecting"
  /\ ~ collector.expired
  /\ collector' = [collector EXCEPT !.expired = TRUE]
  /\ UNCHANGED <<workers, chan, nonWorkerVars>>

CollectorTimeout ==
  /\ collector.st = "collecting"
  /\ collector.expired
  /\ collector' = [collector EXCEPT
                     !.st = "done",
                     !.response = TimeoutResponse(collector.got)]
  /\ UNCHANGED <<workers, chan, nonWorkerVars>>

WorkerInit ==
  /\ workers \in [Workers -> {InitWorker(f) : f \in WorkerFilters}]
  /\ chan = <<>>
  /\ collector = [NoCollector EXCEPT !.st = "collecting"]
  /\ FilterIdle
  /\ RangeIdle
  /\ CollIdle
  /\ CallIdle
  /\ QueryIdle

WStartAct == \E w \in Workers : WStart(w)

WEqualLookupAct == \E w \in Workers : WEqualLookup(w)

WRangeLookupAct == \E w \in Workers : WRangeLookup(w)

WSendAct == \E w \in Workers : WSend(w)

WDeferredAct == \E w \in Workers : WDeferred(w)

WorkerNext ==
  \/ WStartAct
  \/ WEqualLookupAct
  \/ WRangeLookupAct
  \/ WSendAct
  \/ WDeferredAct
  \/ CollectorReceive
  \/ Deadline
  \/ CollectorTimeout

SpecWorker == WorkerInit /\ [][WorkerNext]_vars

(***************************************************************************)
(* SpecCalls: Index.Apply and the loaders of stored bytes, each called     *)
(* once on a drawn input                                                   *)
(***************************************************************************)
ApplySelectors ==
  {<<"Age">>, <<"Address">>, <<"Address", "ZipCode">>, <<"Age", "ZipCode">>}

ApplyIndexes == [Name : {"idx"}, Selector : ApplySelectors, Type : IndexTypes]

\* the records handed to Apply: fields of every type, a missing address, an
\* address that is not a struct, and a record that is not a struct
ApplyObjects ==
  {Struct([Age |-> Scalar("int", v),
           Address |-> Struct([ZipCode |-> Scalar("int", 0)])]) : v \in IntVals}
  \cup
  {Struct([Age |-> Scalar("string", 1),
           Address |-> Struct([ZipCode |-> Scalar("string", 1)])]),
   Struct([Age |-> Scalar("time", 1),
           Address |-> Struct([ZipCode |-> Scalar("bytes", 1)])]),
   Struct([Age |-> Scalar("bytes", 1)]),
   Struct([Age |-> Scalar("int", 0), Address |-> Scalar("string", 1)]),
   Scalar("bytes", 1)}

\* the reference lists a record can have
RefEntries == [IndexName : IndexNames, IndexedValue : {<<k>> : k \in CollKeys}]

RefLists == UNION {[1..n -> RefEntries] : n \in 0..2}

\* Refs.AsBytes: the JSON text of a reference list
AsBytes(r) == [form |-> "json", refs |-> r]

\* what a store can hold in place of the text of r: the text itself, the
\* text cut short, the text with the value of its last reference replaced by
\* a JSON number, or nothing at all
StoredBytes ==
  {AsBytes(r) : r \in RefLists}
    \cup {[form |-> "truncated", refs |-> r] : r \in RefLists}
    \cup {[form |-> "mistyped", refs |-> r] : r \in RefLists \ {<<>>}}
    \cup {[form |-> "empty", refs |-> <<>>]}

\* json.Unmarshal into a fresh value: a syntax error leaves the value
\* untouched, a type error leaves the mistyped field at its zero value and
\* decodes the rest
Unmarshal(input) ==
  CASE input.form = "json" -> [value |-> input.refs, err |-> ""]
    [] input.form = "mistyped" ->
         [value |-> [input.refs EXCEPT ![Len(input.refs)].IndexedValue = <<>>],
          err |-> "UnmarshalTypeError"]
    [] OTHER -> [value |-> <<>>, err |-> "SyntaxError"]

\* json.Decoder.Decode: as Unmarshal, but the end of the file before any
\* value is io.EOF
Decode(input) ==
  IF input.form = "empty" THEN [value |-> <<>>, err |-> "EOF"]
  ELSE Unmarshal(input)

\* NewRefsFromDB: the error of json.Unmarshal is dropped
NewRefsFromDB(input) == [refs |-> Unmarshal(input).value, err |-> FALSE]

\* Collection.loadIndexRefAndFile, reading: file is <<>> when the file does
\* not exist, <<bytes>> otherwise
loadIndexRefAndFile(file) ==
  IF file = <<>> THEN [refs |-> <<>>, err |-> FALSE]
  ELSE LET d == Decode(file[1]) IN
       IF d.err # ""
       THEN IF d.err = "EOF" THEN [refs |-> <<>>, err |-> FALSE]
            ELSE [refs |-> <<>>, err |-> TRUE]
       ELSE [refs |-> d.value, err |-> FALSE]

\* the bucket of the id list lookups
CallBucket == [k \in IntKeys |-> IF k = SignBit THEN {1} ELSE {}]

nonCallVars ==
  <<filterVars, rangeVars, collVars, workerVars, queryVars>>

CallsInit ==
  /\ call = NoCall
  /\ FilterIdle
  /\ RangeIdle
  /\ CollIdle
  /\ WorkerIdle
  /\ QueryIdle

ApplyAct ==
  /\ call.fn = "none"
  /\ \E i \in ApplyIndexes, object \in ApplyObjects :
       call' = [fn |-> "Apply", in |-> [index |-> i, object |-> object],
                out |-> Apply(i, object)]
  /\ UNCHANGED nonCallVars

NewRefsFromDBAct ==
  /\ call.fn = "none"
  /\ \E input \in StoredBytes :
       call' = [fn |-> "NewRefsFromDB", in |-> input,
                out |-> NewRefsFromDB(input)]
  /\ UNCHANGED nonCallVars

LoadIndexRefAndFileAct ==
  /\ call.fn = "none"
  /\ \E file \in {<<>>} \cup {<<input>> : input \in StoredBytes} :
       call' = [fn |-> "loadIndexRefAndFile",
                in |-> IF file = <<>> THEN [form |-> "missing", refs |-> <<>>]
                       ELSE file[1],
                out |-> loadIndexRefAndFile(file)]
  /\ UNCHANGED nonCallVars

\* the id list under the sought key does not decode when corrupt is set
GetIDsForRangeOfValuesAct ==
  /\ call.fn = "none"
  /\ \E key \in IntKeys, corrupt \in BOOLEAN, increasing \in BOOLEAN :
       LET got == getIDsForRangeOfValues(CallBucket, <<key>>, <<>>, TRUE,
                                         increasing, corrupt)
       IN call' = [fn |-> "getIDsForRangeOfValues",
                   in |-> [form |-> IF corrupt THEN "truncated" ELSE "json",
                           refs |-> <<>>, key |-> key,
                           increasing |-> increasing],
                   out |-> [refs |-> got.IDs, err |-> got.err]]
  /\ UNCHANGED nonCallVars

CallsNext ==
  \/ ApplyAct
  \/ NewRefsFromDBAct
  \/ LoadIndexRefAndFileAct
  \/ GetIDsForRangeOfValuesAct

SpecCalls == CallsInit /\ [][CallsNext]_vars

(***************************************************************************)
(* SpecRefs: a reference record under successive SetIndexedValue calls,    *)
(* and the index reference of collection/meta.go                           *)
(***************************************************************************)
\* the indexed values given to SetIndexedValue
RefValues == {<<k>> : k \in IntKeys}

\* the value fields of IndexReference, in the order GetValue tests them
ReferenceTypes ==
  <<"string", "int", "int8", "int16", "int32", "int64", "uint", "uint8",
    "uint16", "uint32", "uint64", "float32", "float64", "time">>

Unsigned == {"string", "uint", "uint8", "uint16", "uint32", "uint64", "time"}

\* the values given to newIndexReference; V = 0 stands for the zero value of
\* the type (0, the empty string, the zero time)
ReferenceValues ==
  {val \in [GoType : {ReferenceTypes[n] : n \in 1..Len(ReferenceTypes)},
            V : IntVals] : val.GoType \in Unsigned => val.V >= 0}

\* newIndexReference: the field of the value's type is set, the others keep
\* their zero value
newIndexReference(indexName, value) ==
  [IndexName |-> indexName,
   Value |-> [n \in 1..Len(ReferenceTypes) |->
                IF ReferenceTypes[n] = value.GoType THEN value.V ELSE 0]]

\* the variant returns the field of the first type whatever it holds
GetValueFirstField(ref) ==
  <<[GoType |-> ReferenceTypes[1], V |-> ref.Value[1]]>>

\* IndexReference.GetValue: the first field that differs from its zero value,
\* nil (<<>>) when there is none
GetValue(ref) ==
  IF \E n \in 1..Len(ReferenceTypes) : ref.Value[n] # 0
  THEN LET n == Min({m \in 1..Len(ReferenceTypes) : ref.Value[m] # 0})
       IN <<[GoType |-> ReferenceTypes[n], V |-> ref.Value[n]]>>
  ELSE <<>>

RefsInit ==
  /\ call = [fn |-> "NewRefs", refs |-> NewRefs, n |-> 0,
             last |-> [name \in IndexNames |-> <<>>],
             indexName |-> "", indexedVal |-> <<>>]
  /\ FilterIdle
  /\ RangeIdle
  /\ CollIdle
  /\ WorkerIdle
  /\ QueryIdle

SetIndexedValueAct ==
  /\ call.fn \in {"NewRefs", "SetIndexedValue"}
  /\ call.n < MaxCalls
  /\ \E indexName \in IndexNames, indexedVal \in RefValues :
       call' = [fn |-> "SetIndexedValue",
                refs |-> SetIndexedValue(call.refs, indexName, indexedVal),
                n |-> call.n + 1,
                last |-> [call.last EXCEPT ![indexName] = <<indexedVal>>],
                indexName |-> indexName, indexedVal |-> indexedVal]
  /\ UNCHANGED nonCallVars

NewIndexReferenceAct ==
  /\ call.fn = "NewRefs"
  /\ \E indexName \in IndexNames, value \in ReferenceValues :
       call' = [fn |-> "newIndexReference", indexName |-> indexName,
                value |-> value,
                got |-> GetValue(newIndexReference(indexName, value))]
  /\ UNCHANGED nonCallVars

RefsNext ==
  \/ SetIndexedValueAct
  \/ NewIndexReferenceAct

SpecRefs == RefsInit /\ [][RefsNext]_vars

(***************************************************************************)
(* SpecQuery: SetIndex / DeleteIndex / Query on a filled collection (the   *)
(* workers and the deadline of a query are in SpecWorker)                  *)
(***************************************************************************)
AgeSelector == <<"Age">>

ZipSelector == <<"Address", "ZipCode">>

\* the records of the filled collection
QueryPayloads ==
  {Struct([Age |-> Scalar("int", 1),
           Address |-> Struct([ZipCode |-> Scalar("int", 1)])]),
   Struct([Age |-> Scalar("int", 0),
           Address |-> Struct([ZipCode |-> Scalar("int", 1)])]),
   Struct([Age |-> Scalar("int", 0)])}

IndexPos(name) == CHOOSE n \in 1..Len(IndexList) : IndexList[n].Name = name

\* the variant creates the index without looking at the records
BackfillNothing(name, recs) == [k \in CollKeys |-> {}]

\* SetIndex over an existing collection: every live record the index applies
\* to is stored under its value
Backfill(name, recs) ==
  [k \in CollKeys |->
     {id \in DOMAIN recs :
        /\ recs[id] # <<>>
        /\ Apply(IndexNamed(name), recs[id][1]).ok
        /\ Apply(IndexNamed(name), recs[id][1]).content = <<k>>}]

\* NewFilter(op).SetSelector(sel).CompareTo(vs[1])..., with EqualWanted
FilterOn(op, eq, sel, vs) ==
  LET f == CompareToAll(SetSelector(NewFilter(op), sel), vs, 1) IN
  IF eq THEN EqualWanted(f) ELSE f

QueryFilterLists ==
  {<<FilterOn("Equal", FALSE, AgeSelector, <<Scalar("int", 0)>>)>>,
   <<FilterOn("Greater", TRUE, AgeSelector, <<Scalar("int", 0)>>)>>,
   <<FilterOn("Equal", FALSE, ZipSelector, <<Scalar("int", 1)>>)>>,
   <<FilterOn("Greater", TRUE, AgeSelector, <<Scalar("int", 0)>>),
     FilterOn("Equal", FALSE, ZipSelector, <<Scalar("int", 1)>>)>>}

\* NewQuery().SetFilter(...).SetOrder(ascending, order...).SetLimits(limit, 0)
Queries ==
  {q \in [filters : QueryFilterLists,
          order : {<<>>, AgeSelector, ZipSelector},
          ascending : BOOLEAN,
          limit : {1, MaxId},
          offset : {0, 1}] :
     /\ q.order # <<>> \/ q.ascending
     /\ q.offset = 0 \/ q.limit = 1}

\* the indexes a filter can be answered by
Applicable(idx, f) ==
  {name \in DOMAIN idx :
     DoesFilterApplyToIndex(IndexNamed(name), f) = "true"}

\* one of them is chosen: the first of the index list
Chosen(idx, f) ==
  CHOOSE name \in Applicable(idx, f) :
    \A other \in Applicable(idx, f) : IndexPos(name) <= IndexPos(other)

\* the worker of a filter: the lookup of the filter's operator
Lookup(idx, f) ==
  LET b == idx[Chosen(idx, f)] IN
  CASE GetType(f) = "Equal" -> queryEqual(b, f, 0).IDs
    [] GetType(f) \in {"Greater", "Less"} -> queryGreaterLess(b, f, 0).IDs
    [] OTHER -> queryBetween(b, f, 0).IDs

\* the scan of the whole ordering index, cut at InternalQueryLimit
OrderScan(b) == ScanLoop(b, BucketKeys(b), 0, <<>>, TRUE, TRUE, <<>>).IDs

\* the ordering values of a query: those of a participating index on the
\* order selector, else those of a scan of an index on the order selector,
\* else none (the order is then not enforced)
OrderAnnotations(idx, q) ==
  LET participating ==
        {n \in 1..Len(q.filters) :
           IndexNamed(Chosen(idx, q.filters[n])).Selector = q.order}
      ordering == {name \in DOMAIN idx : IndexNamed(name).Selector = q.order}
  IN IF participating # {}
     THEN Lookup(idx, q.filters[Min(participating)])
     ELSE IF ordering # {}
          THEN OrderScan(idx[CHOOSE name \in ordering : TRUE])
          ELSE <<>>

\* the ordering value an id carries, <<>> when it carries none
OrderValue(annotations, id) ==
  IF id \in IDsOf(annotations)
  THEN annotations[CHOOSE n \in 1..Len(annotations) :
                     annotations[n].ID = id].values
  ELSE <<>>

\* the variant sorts ascending whatever the direction
BeforeAscending(annotations, ascending, a, b) ==
  LET va == OrderValue(annotations, a)
      vb == OrderValue(annotations, b)
  IN IF va = <<>> \/ vb = <<>> THEN (va # <<>>) \/ (vb = <<>> /\ a < b)
     ELSE IF va[1] = vb[1] THEN a < b ELSE va[1] < vb[1]

\* orderBy: by ordering value in the asked direction, entries without value
\* last, ties by ascending id
Before(annotations, ascending, a, b) ==
  LET va == OrderValue(annotations, a)
      vb == OrderValue(annotations, b)
  IN IF va = <<>> \/ vb = <<>> THEN (va # <<>>) \/ (vb = <<>> /\ a < b)
     ELSE IF va[1] = vb[1] THEN a < b
     ELSE IF ascending THEN va[1] < vb[1] ELSE va[1] > vb[1]

RECURSIVE OrderBy(_, _, _)
OrderBy(S, annotations, ascending) ==
  IF S = {} THEN <<>>
  ELSE LET first == CHOOSE a \in S :
                      \A b \in S \ {a} : Before(annotations, ascending, a, b)
       IN <<first>> \o OrderBy(S \ {first}, annotations, ascending)

\* the variant keeps everything behind the offset
PaginateUnlimited(ids, offset, limit) == SubSeq(ids, offset + 1, Len(ids))

\* paginate: the window of limit entries behind the offset
Paginate(ids, offset, limit) ==
  SubSeq(ids, offset + 1, Min({offset + limit, Len(ids)}))

\* the ids every filter of the query has returned
Surviving(idx, q) ==
  IDsOf(IntersectAll([n \in 1..Len(q.filters) |-> Lookup(idx, q.filters[n])],
                     1))

\* Collection.Query: plan, lookups, intersection, order, offset and limit
RunQuery(idx, q) ==
  IF \E n \in 1..Len(q.filters) : Applicable(idx, q.filters[n]) = {}
  THEN [status |-> "ok", err |-> "", rows |-> <<>>]
  ELSE LET sorted == IF q.order = <<>>
                     THEN SortedSeq(Surviving(idx, q))
                     ELSE OrderBy(Surviving(idx, q), OrderAnnotations(idx, q),
                                  q.ascending)
       IN [status |-> "ok", err |-> "",
           rows |-> Paginate(sorted, q.offset, q.limit)]

nonQueryVars == <<filterVars, rangeVars, workerVars, callVars>>

\* the collection after a put of every drawn record, with both indexes
QueryInit ==
  /\ records \in [Ids -> {<<>>} \cup {<<p>> : p \in QueryPayloads}]
  /\ refs = [id \in Ids |->
               IF records[id] = <<>> THEN NewRefs ELSE RefsOf(records[id][1])]
  /\ indexes = [name \in IndexNames |-> Backfill(name, records)]
  /\ revisions = [id \in Ids |->
                    IF records[id] = <<>> THEN <<>>
                    ELSE <<[ts |-> id, payload |-> records[id][1]]>>]
  /\ clock = MaxId
  /\ lastOp = NoOp
  /\ qry = NoQuery
  /\ resp = NoResponse
  /\ indexOp = NoIndexOp
  /\ FilterIdle
  /\ RangeIdle
  /\ WorkerIdle
  /\ CallIdle

\* a SetIndex of an existing name returns DuplicateIndex and changes nothing
SetIndex(name) ==
  /\ name \notin DOMAIN indexes
  /\ indexOp' = [op |-> "SetIndex", name |-> name, err |-> ""]
  /\ indexes' = [n \in DOMAIN indexes \cup {name} |->
                   IF n = name THEN Backfill(name, records) ELSE indexes[n]]
  /\ refs' = [id \in Ids |->
                IF /\ records[id] # <<>>
                   /\ Apply(IndexNamed(name), records[id][1]).ok
                THEN SetIndexedValue(
                       refs[id], name,
                       Apply(IndexNamed(name), records[id][1]).content)
                ELSE refs[id]]
  /\ qry' = NoQuery
  /\ resp' = NoResponse
  /\ UNCHANGED <<records, revisions, clock, lastOp, nonQueryVars>>

\* a DeleteIndex of an unknown name returns UnknownIndex and changes nothing
DeleteIndex(name) ==
  /\ name \in DOMAIN indexes
  /\ indexOp' = [op |-> "DeleteIndex", name |-> name, err |-> ""]
  /\ indexes' = [n \in DOMAIN indexes \ {name} |-> indexes[n]]
  /\ refs' = [id \in Ids |->
                LET Others(r) == r.IndexName # name IN
                SelectSeq(refs[id], Others)]
  /\ qry' = NoQuery
  /\ resp' = NoResponse
  /\ UNCHANGED <<records, revisions, clock, lastOp, nonQueryVars>>

\* a query changes nothing of the collection: each state of the collection
\* answers every query once
Query(q) ==
  /\ resp.status = "none"
  /\ qry' = q
  /\ resp' = RunQuery(indexes, q)
  /\ UNCHANGED <<collVars, indexOp, nonQueryVars>>

SetIndexAct == \E name \in IndexNames : SetIndex(name)

DeleteIndexAct == \E name \in IndexNames : DeleteIndex(name)

QueryAct == \E q \in Queries : Query(q)

QueryNext ==
  \/ SetIndexAct
  \/ DeleteIndexAct
  \/ QueryAct

SpecQuery == QueryInit /\ [][QueryNext]_vars

(***************************************************************************)
(* What the claims speak about                                             *)
(***************************************************************************)
StoredIds(b) == UNION {b[k] : k \in DOMAIN b}

KeyOf(b, id) == CHOOSE k \in DOMAIN b : id \in b[k]

\* the integer a record holds at the indexed field, from its key in the index
FieldValue(b, id) == KeyOf(b, id) - SignBit

\* the comparison values of a filter, as the caller gave them
Compared(f, n) == f.values[n].Value.V

\* the record value v satisfies the filter (the checks of doQueryTest, with
\* the equal flag deciding whether an endpoint is admitted)
Satisfies(f, v) ==
  CASE f.operator = "Equal" ->
         /\ Len(f.values) >= 1
         /\ v = Compared(f, 1)
    [] f.operator = "Greater" ->
         /\ Len(f.values) >= 1
         /\ IF f.equal THEN v >= Compared(f, 1) ELSE v > Compared(f, 1)
    [] f.operator = "Less" ->
         /\ Len(f.values) >= 1
         /\ IF f.equal THEN v <= Compared(f, 1) ELSE v < Compared(f, 1)
    [] f.operator = "Between" ->
         /\ Len(f.values) >= 2
         /\ IF f.equal
            THEN Compared(f, 1) <= v /\ v <= Compared(f, 2)
            ELSE Compared(f, 1) < v /\ v < Compared(f, 2)

Returned == IDsOf(result.IDs)

StoredValues(b) == {FieldValue(b, id) : id \in StoredIds(b)}

\* C1: query soundness: every id a lookup returns is stored in the index
\* under a value that satisfies the filter, whatever the operator, the equal
\* flag and the order of the two values of a Between filter.
C1_QuerySoundness ==
  result.status = "ok" =>
    \A id \in Returned :
      /\ id \in StoredIds(bucket)
      /\ Satisfies(query, FieldValue(bucket, id))

\* C2: an ascending range lookup (Greater or Between) whose starting value
\* is not a key of the bucket returns the ids stored under the smallest key
\* greater than the starting value, provided that key does not cross the end
\* value and the id cap is not reached.
C2_AbsentFromEmitsNext ==
  (/\ result.status = "ok"
   /\ failAt = 0
   /\ query.operator \in {"Greater", "Between"}
   /\ query.operator = "Between" => Len(query.values) >= 2
   /\ ~ result.truncated
   /\ Compared(query, 1) \notin StoredValues(bucket))
  => \A id \in StoredIds(bucket) :
       (/\ FieldValue(bucket, id) > Compared(query, 1)
        /\ \A v \in StoredValues(bucket) :
             v > Compared(query, 1) => FieldValue(bucket, id) <= v
        /\ Satisfies(query, FieldValue(bucket, id)))
       => id \in Returned

\* C3: the equal flag alone decides inclusivity: the ids under a key equal to
\* a compared value are returned iff the flag is set, and the ids under a key
\* strictly inside the range are returned whatever the flag (lookups that hit
\* the id cap and Between filters with reversed values left aside).
C3_EqualFlagDecidesInclusivity ==
  (/\ result.status = "ok"
   /\ failAt = 0
   /\ ~ result.truncated
   /\ query.operator \in {"Greater", "Less"}
        \/ (/\ query.operator = "Between"
            /\ Len(query.values) >= 2
            /\ Compared(query, 1) <= Compared(query, 2)))
  => \A id \in StoredIds(bucket) :
       LET v == FieldValue(bucket, id)
           a == Compared(query, 1)
       IN CASE query.operator = "Greater" ->
                 /\ v = a => (id \in Returned <=> query.equal)
                 /\ v > a => id \in Returned
            [] query.operator = "Less" ->
                 /\ v = a => (id \in Returned <=> query.equal)
                 /\ v < a => id \in Returned
            [] OTHER ->
                 /\ (v = a \/ v = Compared(query, 2))
                      => (id \in Returned <=> query.equal)
                 /\ (a < v /\ v < Compared(query, 2)) => id \in Returned

\* C4: query completeness at the lookup: every stored id whose value
\* satisfies the filter is returned, unless the lookup was truncated because
\* InternalQueryLimit was hit.
C4_QueryCompleteness ==
  (result.status = "ok" /\ failAt = 0) =>
    \/ result.truncated
    \/ \A id \in StoredIds(bucket) :
         Satisfies(query, FieldValue(bucket, id)) => id \in Returned

\* C5: a range lookup never returns more than InternalQueryLimit ids,
\* including when the ids under the starting key alone exceed the cap.
C5_RangeScanCapped ==
  (result.status = "ok" /\ query.operator # "Equal")
    => Len(result.IDs) <= InternalQueryLimit

\* C6: DoesFilterApplyToIndex answers true iff the two selectors are
\* element-wise equal and one of the filter's values has the index's type,
\* and answers false (without failing) for every other filter.
C6_FilterAppliesIffSelectorAndType ==
  applies # "none" =>
    applies = IF /\ filter.selector = index.Selector
                 /\ \E k \in 1..Len(filter.values) :
                      filter.values[k].Type = index.Type
              THEN "true" ELSE "false"

\* C7: after any sequence of CompareTo calls a Between filter carries at most
\* two values and a filter of any other operator at most one.
C7_FilterValuesBounded ==
  IF filter.operator = "Between"
  THEN Len(filter.values) <= 2
  ELSE Len(filter.values) <= 1

(***************************************************************************)
(* The collection claims                                                   *)
(***************************************************************************)
\* the key a record must be stored under in an index, read off the record
\* itself: <<>> when the record does not take part in the index
ExpectedKey(name, payload) ==
  IF name = "age"
  THEN IF "Age" \in DOMAIN payload.V /\ payload.V["Age"].GoType = "int"
       THEN <<payload.V["Age"].V + SignBit>> ELSE <<>>
  ELSE IF /\ "Address" \in DOMAIN payload.V
          /\ payload.V["Address"].GoType = "struct"
          /\ "ZipCode" \in DOMAIN payload.V["Address"].V
          /\ payload.V["Address"].V["ZipCode"].GoType = "int"
       THEN <<payload.V["Address"].V["ZipCode"].V + SignBit>> ELSE <<>>

\* C8: index consistency: in every index, an id is stored under a key iff
\* the record of that id is live and its indexed value encodes to that key;
\* so every entry resolves to a live record with that value, and a live
\* record has exactly one entry per index that applies to it.
C8_IndexConsistency ==
  \A name \in IndexNames, k \in CollKeys :
    /\ indexes[name][k] \subseteq CollIds
    /\ \A id \in CollIds :
         id \in indexes[name][k]
           <=> (IsLive(id) /\ ExpectedKey(name, Get(id)[1]) = <<k>>)

\* an update changed the indexed age of a live record
C8_Witness ==
  \E id \in CollIds :
    /\ lastOp.op = "Put" /\ lastOp.id = id
    /\ Len(revisions[id]) >= 2
    /\ LET old == ExpectedKey("age", revisions[id][Len(revisions[id]) - 1].payload)
           new == ExpectedKey("age", Get(id)[1])
       IN /\ old # <<>> /\ new # <<>> /\ old # new
          /\ id \in indexes["age"][new[1]]

StoreVars == <<records, revisions, refs, indexes, clock>>

\* C9: Rollback(id, N) with N exceeding the number of stored previous
\* revisions returns an error and leaves the state unchanged: the live
\* payload is the same and no revision is added.
C9_FailedRollbackKeepsState ==
  [][(/\ lastOp'.op = "Rollback"
      /\ IsLive(lastOp'.id)
      /\ lastOp'.n > NumPrevious(lastOp'.id))
       => /\ lastOp'.err # ""
          /\ UNCHANGED StoreVars]_vars

\* a rollback beyond the stored revisions has just failed on a live record
C9_Witness ==
  /\ lastOp.op = "Rollback"
  /\ lastOp.err = "RevisionOutOfRange"
  /\ IsLive(lastOp.id)
  /\ lastOp.n > NumPrevious(lastOp.id)
  /\ NumPrevious(lastOp.id) >= 1

\* after the step, id is live with payload a, and every index that applies
\* to a holds id under a's value and not under b's value
RestoredTo(id, a, b) ==
  /\ records'[id] = <<a>>
  /\ \A name \in IndexNames :
       LET ka == ExpectedKey(name, a)
           kb == ExpectedKey(name, b)
       IN /\ ka # <<>> => id \in indexes'[name][ka[1]]
          /\ (kb # <<>> /\ kb # ka) => id \notin indexes'[name][kb[1]]

StoredTimestamps ==
  UNION {{revisions[id][m].ts : m \in 1..Len(revisions[id])} :
           id \in DOMAIN revisions}

\* C20: a successful Rollback(id, N) returns the timestamp the restored
\* revision got when it was put and makes its payload the live payload of
\* Get(id); every put and every restore is stored as a new, newest revision
\* behind the revisions already there (so the offsets of a later Rollback
\* count from the new live revision), with a timestamp greater than all
\* timestamps stored before.
C20_RollbackReturnsRestoredTimestamp ==
  [][/\ (lastOp'.op \in {"Put", "Rollback"} /\ lastOp'.err = "") =>
          LET revs == revisions[lastOp'.id]
              after == revisions'[lastOp'.id]
              kept == Len(after) - 1
          IN /\ clock' > clock
             /\ \A ts \in StoredTimestamps : ts < clock'
             /\ after[Len(after)].ts = clock'
             /\ kept = Min({Len(revs), RevisionDepth - 1})
             /\ \A m \in 1..kept : after[m] = revs[Len(revs) - kept + m]
     /\ (lastOp'.op = "Rollback" /\ lastOp'.err = "") =>
          LET id == lastOp'.id
              revs == revisions[id]
              pos == Len(revs) - 1 - lastOp'.n
              after == revisions'[id]
          IN /\ pos >= 1
             /\ lastOp'.ts = revs[pos].ts
             /\ records'[id] = <<revs[pos].payload>>
             /\ after[Len(after)].payload = revs[pos].payload]_vars

\* a record was restored twice in a row: the second rollback(id, 0) counted
\* from the revision the first one had added and brought back the payload
\* the first one had replaced
C20_Witness ==
  /\ lastOp.op = "Rollback" /\ lastOp.err = "" /\ lastOp.n = 0
  /\ LET revs == revisions[lastOp.id] IN
     /\ Len(revs) = RevisionDepth
     /\ revs[Len(revs)].ts = clock
     /\ lastOp.ts = revs[Len(revs) - 1].ts - 1
     /\ revs[Len(revs)].payload # revs[Len(revs) - 1].payload
     /\ clock >= 4

(***************************************************************************)
(* The query workers, the collector and the deadline                       *)
(***************************************************************************)
\* C11: a query whose deadline expires before it completes returns the
\* Timeout error and no rows: the response of the collector never holds rows
\* together with an error, and never holds rows once the deadline has passed.
C11_TimeoutReturnsNoRows ==
  /\ collector.response.err # "" => collector.response.rows = <<>>
  /\ (collector.st = "done" /\ collector.expired) =>
       /\ collector.response.err = "Timeout"
       /\ collector.response.rows = <<>>

\* the deadline passed after the collector had taken a non-empty id set
C11_Witness ==
  /\ collector.st = "done"
  /\ collector.expired
  /\ collector.got # <<>>
  /\ collector.got[1] # <<>>
  /\ collector.response.err = "Timeout"

\* C12: every Index.Query worker sends exactly one message on the completion
\* channel on every path: its id set when all lookups succeeded, the nil
\* sentinel when a lookup failed; never two messages, and none is missing
\* when the worker has returned.
C12_WorkerSendsExactlyOnce ==
  \A w \in DOMAIN workers :
    LET wk == workers[w] IN
    /\ Len(wk.sent) <= 1
    /\ wk.pc = "returned" =>
         /\ Len(wk.sent) = 1
         /\ wk.sent[1].isNil <=> (wk.failed \/ wk.panicked)
         /\ ~ wk.sent[1].isNil => wk.sent[1].ids = wk.ids

\* both workers have returned: one after a failed lookup, the other after
\* sending a non-empty id set
C12_Witness ==
  /\ workers # <<>>
  /\ \E w \in Workers, v \in Workers :
       /\ workers[w].pc = "returned"
       /\ workers[w].failed
       /\ workers[v].pc = "returned"
       /\ ~ workers[v].failed
       /\ workers[v].sent # <<>>
       /\ workers[v].sent[1].ids # <<>>

\* C13: a lookup error inside queryEqual, queryGreaterLess or queryBetween
\* is reported to the caller: the function never returns plainly, with an
\* empty or partly filled id set, after one of its lookups has failed.
C13_LookupErrorReachesCaller ==
  (failAt # 0 /\ result.status # "none") => result.status # "ok"

Max(S) == CHOOSE x \in S : \A y \in S : x >= y

\* the keys of the bucket smaller than the key from
KeysBelow(b, from) == {k \in DOMAIN b : b[k] # {} /\ k < from}

\* C19: a descending range lookup (Less) whose starting value is not a key
\* of the bucket starts at the immediate predecessor: the first key the scan
\* visits is the greatest key smaller than the starting value, its ids are
\* returned (unless the id cap cut the result), and no id stored under a key
\* greater than the starting value is returned.
C19_LessFromAbsentStartsAtPredecessor ==
  (/\ result.status = "ok"
   /\ failAt = 0
   /\ GetType(query) = "Less"
   /\ bucket[Bytes(query.values[1])[1]] = {})
  => LET from == Bytes(query.values[1])[1]
         keys == BucketKeys(bucket)
         first == CursorPrev(keys, Seek(keys, <<from>>))
     IN /\ \A id \in Returned : KeyOf(bucket, id) < from
        /\ IF KeysBelow(bucket, from) = {}
           THEN first = 0 /\ Returned = {}
           ELSE /\ first # 0
                /\ keys[first] = Max(KeysBelow(bucket, from))
                /\ ~ result.truncated =>
                     bucket[Max(KeysBelow(bucket, from))] \subseteq Returned

\* a Less lookup from an absent value with keys on both sides of it
C19_Witness ==
  /\ result.status = "ok"
  /\ failAt = 0
  /\ GetType(query) = "Less"
  /\ bucket[Bytes(query.values[1])[1]] = {}
  /\ KeysBelow(bucket, Bytes(query.values[1])[1]) # {}
  /\ \E k \in DOMAIN bucket : bucket[k] # {} /\ k > Bytes(query.values[1])[1]
  /\ Returned = bucket[Max(KeysBelow(bucket, Bytes(query.values[1])[1]))]

(***************************************************************************)
(* Index.Apply and the loaders                                             *)
(***************************************************************************)
\* the input of a loader does not decode
Undecodable(input) == input.form \in {"truncated", "mistyped"}

\* C14: corruption is always surfaced: a loader handed stored bytes that do
\* not decode returns an error, never a reference record (or id list) as if
\* the load had succeeded.
C14_CorruptionSurfaced ==
  (/\ call.fn \in {"NewRefsFromDB", "loadIndexRefAndFile",
                   "getIDsForRangeOfValues"}
   /\ Undecodable(call.in))
  => call.out.err

\* the value at the end of the selector path, when every field of the path
\* exists
RECURSIVE FieldAt(_, _, _)
FieldAt(val, sel, n) ==
  IF n > Len(sel) THEN <<val>>
  ELSE IF val.GoType = "struct" /\ sel[n] \in DOMAIN val.V
       THEN FieldAt(val.V[sel[n]], sel, n + 1)
       ELSE <<>>

TypeMatches(type, val) ==
  \/ type = "StringIndex" /\ val.GoType = "string"
  \/ type = "IntIndex" /\ val.GoType = "int"
  \/ type = "TimeIndex" /\ val.GoType = "time"
  \/ type = "BytesIndex" /\ val.GoType = "bytes"

Encoded(val) ==
  CASE val.GoType = "string" -> <<stringToBytes(val.V)>>
    [] val.GoType = "int"    -> <<intToBytes(val.V)>>
    [] val.GoType = "time"   -> <<timeToBytes(val.V)>>
    [] OTHER                 -> <<val.V>>

\* C16: Index.Apply never fails: it returns (encoded value, true) when every
\* field of the selector path exists and the value has the type of the
\* index, and (nil, false) when a field is missing or the type differs.
C16_ApplyNeverFails ==
  call.fn = "Apply" =>
    LET at == FieldAt(call.in.object, call.in.index.Selector, 1) IN
    /\ ~ call.out.panic
    /\ IF at # <<>> /\ TypeMatches(call.in.index.Type, at[1])
       THEN call.out.ok /\ call.out.content = Encoded(at[1])
       ELSE ~ call.out.ok /\ call.out.content = <<>>

\* the live records whose field at the selector has the index type and value v
Holding(sel, v) ==
  {id \in Ids : /\ records[id] # <<>>
                /\ FieldAt(records[id][1], sel, 1) = <<Scalar("int", v)>>}

EqualOnAge(q) ==
  /\ Len(q.filters) = 1
  /\ GetType(q.filters[1]) = "Equal"
  /\ q.filters[1].selector = AgeSelector

\* C15: an index created while the collection holds records covers them: every
\* index holds exactly the live records carrying its field, and a query by
\* equality on Age asking for everything returns exactly the records of that
\* age when the index exists and nothing when it does not
C15_DynamicIndexServesExistingRecords ==
  /\ \A name \in DOMAIN indexes : \A k \in CollKeys :
       indexes[name][k] =
         {id \in Ids : records[id] # <<>> /\
                       ExpectedKey(name, records[id][1]) = <<k>>}
  /\ (/\ resp.status # "none"
      /\ EqualOnAge(qry)
      /\ qry.limit = MaxId
      /\ qry.offset = 0)
     => IF "age" \in DOMAIN indexes
        THEN /\ resp.status = "ok"
             /\ {resp.rows[n] : n \in 1..Len(resp.rows)} =
                  Holding(AgeSelector, qry.filters[1].values[1].Value.V)
             /\ Len(resp.rows) =
                  Cardinality(Holding(AgeSelector,
                                      qry.filters[1].values[1].Value.V))
        ELSE resp.status # "ok" \/ resp.rows = <<>>

\* the age index was deleted and created again, and the query finds records
C15_Witness ==
  /\ indexOp = [op |-> "SetIndex", name |-> "age", err |-> ""]
  /\ EqualOnAge(qry)
  /\ qry.limit = MaxId
  /\ qry.offset = 0
  /\ resp.status = "ok"
  /\ Len(resp.rows) >= 2

\* C17: a response never holds more records than the limit of its query
C17_ResponseWithinLimit ==
  resp.status = "ok" => Len(resp.rows) <= qry.limit

\* more records match than the limit lets through
C17_Witness ==
  /\ resp.status = "ok"
  /\ qry.limit = 1
  /\ Len(resp.rows) = 1
  /\ Cardinality(Surviving(indexes, qry)) > qry.offset + qry.limit

\* the rows follow the direction of the query on the field at the order
\* selector; rows without the field are not compared
SortedRows ==
  \A i \in 1..Len(resp.rows) : \A j \in 1..Len(resp.rows) :
    LET vi == FieldAt(records[resp.rows[i]][1], qry.order, 1)
        vj == FieldAt(records[resp.rows[j]][1], qry.order, 1)
    IN (i < j /\ vi # <<>> /\ vj # <<>>)
       => IF qry.ascending THEN vi[1].V <= vj[1].V ELSE vi[1].V >= vj[1].V

AllAnnotated ==
  \A n \in 1..Len(resp.rows) :
    FieldAt(records[resp.rows[n]][1], qry.order, 1) # <<>>
    => OrderValue(OrderAnnotations(indexes, qry), resp.rows[n]) # <<>>

C22_EqualLookupExact ==
  (/\ result.status = "ok"
   /\ failAt = 0
   /\ GetType(query) = "Equal"
   /\ query.values # <<>>)
  => LET value == Bytes(query.values[1]) IN
     /\ Returned = bucket[value[1]]
     /\ Len(result.IDs) = Cardinality(bucket[value[1]])
     /\ \A n \in 1..Len(result.IDs) : result.IDs[n].values = value

\* the key holds several ids and another key holds ids that are not returned
C22_Witness ==
  /\ result.status = "ok"
  /\ failAt = 0
  /\ GetType(query) = "Equal"
  /\ query.values # <<>>
  /\ Len(result.IDs) >= 2
  /\ \E k \in DOMAIN bucket : bucket[k] # {} /\ k # Bytes(query.values[1])[1]

(***************************************************************************)
(* Filter.CompareTo                                                        *)
(***************************************************************************)
\* C23: a CompareTo with a value that is not a string, an integer or a time
\* instant leaves the whole filter unchanged; with a supported value on a
\* filter that is not Between it leaves operator, selector and equal flag and
\* replaces the values by the single new value
C23_CompareToFrame ==
  [][\A val \in GoValues :
       (nCalls' = nCalls + 1 /\ filter' = CompareTo(filter, val))
       => /\ val.GoType \notin {"string", "int", "time"} => filter' = filter
          /\ (val.GoType \in {"string", "int", "time"} /\
              filter.operator # "Between")
             => /\ Len(filter'.values) = 1
                /\ filter'.values[1].Value = val
                /\ filter'.values[1].Type # "ErrWrongType"
                /\ filter'.operator = filter.operator
                /\ filter'.selector = filter.selector
                /\ filter'.equal = filter.equal]_vars

\* a filter that is not Between after as many CompareTo as the bound allows
C23_Witness ==
  /\ filter.operator # "Between"
  /\ nCalls = MaxCalls
  /\ Len(filter.values) = 1
  /\ filter.equal
  /\ filter.selector # <<>>

(***************************************************************************)
(* The reference record and the index reference                            *)
(***************************************************************************)
\* C24: after any sequence of SetIndexedValue calls on a new reference
\* record, the record holds at most one Ref per index name, the Ref of a name
\* holds the value of the last call made for that name (and there is none for
\* a name never given), and the last call made once more changes nothing
C24_OneRefPerIndexHoldingLastValue ==
  call.fn = "SetIndexedValue"
  => /\ \A name \in IndexNames :
          /\ Cardinality({n \in 1..Len(call.refs) :
                            call.refs[n].IndexName = name}) <= 1
          /\ IF call.last[name] = <<>>
             THEN \A n \in 1..Len(call.refs) : call.refs[n].IndexName # name
             ELSE \E n \in 1..Len(call.refs) :
                    call.refs[n] = [IndexName |-> name,
                                    IndexedValue |-> call.last[name][1]]
     /\ SetIndexedValue(call.refs, call.indexName, call.indexedVal) = call.refs

\* both names are in the record and the first one was given a second value
C24_Witness ==
  /\ call.fn = "SetIndexedValue"
  /\ call.n = MaxCalls
  /\ Len(call.refs) = 2
  /\ call.indexName = call.refs[1].IndexName
  /\ call.refs[1].IndexedValue # call.refs[2].IndexedValue

\* C25: newIndexReference(n, v).GetValue() returns v with its type, for every
\* index name and every indexable value, the zero values included
C25_ReferenceRoundTrip ==
  call.fn = "newIndexReference" => call.got = <<call.value>>

(***************************************************************************)
(* Between with fewer than two values                                      *)
(***************************************************************************)
\* every id of the bucket, as the id set of another filter of the query
AllStored == newIDs(<<>>, SortedSeq(StoredIds(bucket)))

\* C26: a Between filter carrying fewer than two values makes no lookup (no
\* store error can occur), returns normally with the empty id set, and the
\* intersection of that set with the id set of any other filter is empty
C26_BetweenWithoutTwoValuesIsEmpty ==
  (/\ result.status # "none"
   /\ GetType(query) = "Between"
   /\ Len(query.values) < 2)
  => /\ result.status = "ok"
     /\ failAt = 0
     /\ result.IDs = <<>>
     /\ ~ result.truncated
     /\ Intersect(result.IDs, AllStored) = <<>>
     /\ Intersect(AllStored, result.IDs) = <<>>

\* the single value of the filter is a key of the bucket that holds ids, and
\* the filter asked for the equal key
C26_Witness ==
  /\ result.status = "ok"
  /\ GetType(query) = "Between"
  /\ Len(query.values) = 1
  /\ query.equal
  /\ bucket[Bytes(query.values[1])[1]] # {}
  /\ result.IDs = <<>>

(***************************************************************************)
(* Concurrent puts                                                         *)
(***************************************************************************)
\* C21: puts issued concurrently by one goroutine per record all succeed and
\* leave the store as if they had run one after the other: at every moment
\* each record holds the last payload its goroutine has committed and the
\* indexes hold exactly the entries of those payloads, and when all
\* goroutines are done every one has reported success
C21_ConcurrentPutsSerialize ==
  /\ \A g \in Goroutines : records[g] = workers[g].last
  /\ \A name \in IndexNames : \A k \in CollKeys :
       indexes[name][k] =
         {g \in Goroutines : /\ workers[g].last # <<>>
                             /\ ExpectedKey(name, workers[g].last[1]) = <<k>>}
  /\ \A n \in 1..Len(chan) : chan[n].err = ""
  /\ Len(chan) = Cardinality({g \in Goroutines : workers[g].pc = "done"})

\* every goroutine is done after its three puts, and two records end under
\* the same key of the age index
C21_Witness ==
  /\ Len(chan) = Cardinality(Goroutines)
  /\ \A g \in Goroutines : workers[g].k = PutsPerGoroutine
  /\ clock = PutsPerGoroutine * Cardinality(Goroutines)
  /\ \E k \in CollKeys : Cardinality(indexes["age"][k]) >= 2

====
